---- MODULE Spec2Model ----
(***************************************************************************)
(* Model of the real-time layer of ufobeep: SocketService (socketService), *)
(* the socket.io room adapter it drives, the sighting and chat-message     *)
(* tables it reads and writes through prisma, the socketAuth handshake,    *)
(* the spamDetection middleware with its submission log, the REST chat     *)
(* route behind chatMessageLimiter, and the proximity notifications of     *)
(* NotificationService.                                                    *)
(*                                                                         *)
(* Every async handler is cut at its awaits: the synchronous prefix is one *)
(* action, and each continuation after an awaited prisma call is another,  *)
(* so that handlers of different events interleave exactly where the event *)
(* loop lets them.                                                         *)
(***************************************************************************)
EXTENDS Bags, FiniteSets, Integers, Sequences, TLC

VARIABLES
    connectedUsers,   \* keys of SocketService.connectedUsers
    closed,           \* sockets whose transport has closed (socket.join is a no-op)
    rooms,            \* adapter rooms "sighting:<id>", as sighting id -> set of socket ids
    userRooms,        \* adapter rooms "user:<id>", as user id -> set of socket ids
    sightings,        \* sighting table: id -> "visible" | "hidden" | "missing"
    chatMessages,     \* chatMessage table, in creation order
    tasks,            \* handler invocations suspended at an await
    typing,           \* <<socket, sighting>> with a typing_start and no typing_stop since
    left,             \* <<socket, sighting>> whose leave_sighting was handled, no join sent since
    delivered,        \* socket -> sequence of new_chat_message ids it was sent
    nEvents,          \* number of client events received so far
    nChat,            \* number of chat_message events that passed validation
    out,              \* bag of <<recipient, event, argument>> emitted by the last step
    last,             \* the last step taken
    handshake,        \* socket -> the socketAuth run of its handshake and what it set on the socket
    users,            \* user table: id of a stored user -> its row
    submissionLog,    \* submissionLog table: rows keyed by (ipAddress, action, windowStart)
    now,              \* Date.now(), in ticks
    requests,         \* spamDetection invocations suspended at an await
    reply,            \* how the last finished spamDetection invocation ended
    nRequests,        \* number of requests spamDetection has received
    hits,             \* requests chatMessageLimiter has counted in the current window
    passes,           \* notifyNearbyUsers / broadcastNewSighting invocations awaiting findMany
    returned,         \* how the last notification pass ended, if none has started since
    updates           \* handleLocationUpdate invocations suspended at an await

socketVars == <<connectedUsers, closed, rooms, userRooms, sightings, chatMessages, tasks,
                typing, left, delivered, nEvents, nChat, out, last>>
authVars == <<handshake>>
storeVars == <<users>>
scorerVars == <<submissionLog, now, requests, reply, nRequests>>

limiterVars == <<hits>>
notifyVars == <<passes, returned>>
locationVars == <<updates>>

vars == <<socketVars, authVars, storeVars, scorerVars, limiterVars, notifyVars,
          locationVars>>

\* what the handlers of SocketService, what socketAuth, what spamDetection,
\* what the REST chat route, what the notification passes and what
\* handleLocationUpdate leave alone
exceptSocket == <<authVars, storeVars, scorerVars, limiterVars, notifyVars, locationVars>>
exceptAuth == <<socketVars, storeVars, scorerVars, limiterVars, notifyVars, locationVars>>
exceptScorer == <<socketVars, authVars, storeVars, limiterVars, notifyVars, locationVars>>
exceptRest == <<authVars, storeVars, scorerVars, notifyVars, locationVars>>
exceptNotify == <<authVars, storeVars, scorerVars, limiterVars, locationVars>>
exceptLocation == <<authVars, scorerVars, limiterVars, notifyVars>>

----------------------------------------------------------------------------
(* Bounds *)

\* client events handled in a run of Spec, OrderSpec, FairSpec, PresenceSpec
\* and ValidationSpec
MaxEvents == 2
MaxOrderEvents == 3
MaxFairEvents == 2
MaxPresenceEvents == 3
MaxValidationEvents == 2
\* chat messages that pass validation in a run
MaxChat == 2
\* requests through spamDetection in a run of ScorerSpec and of LoadSpec,
\* how far the clock runs, and the rows the log may hold at the start
MaxScorerRequests == 2
MaxLoadRequests == 11
MaxClock == 2
MaxPriorRows == 6
\* chat messages and joins in a run of RateSpec
MaxRateChat == 31
MaxRateJoins == 1
\* notification passes in flight at once
MaxPasses == 1
\* update_location events in a run of LocationSpec
MaxLocationEvents == 2
\* client events in a run of CrashSpec
MaxCrashEvents == 2
\* client events in a run of RaceSpec
MaxRaceEvents == 2

(* Universe *)

Sockets == {"c1", "c2"}
SightingIds == {"s1", "s2"}
UserIds == {"u1", "u2", "u3"}

\* the sightingId of an event sent without a payload: data is undefined,
\* and  const { sightingId } = data  throws a TypeError
NoPayload == "undefined"
Payloads == SightingIds \cup {NoPayload}

\* the user id of a token whose user row has been deleted
DeletedUserId == "u9"

\* places, as latitude and longitude in 1/10000 of a degree: two in New
\* York, one on the equator and one on the prime meridian
Nyc1 == [lat |-> 407589, lon |-> -739851]
Nyc2 == [lat |-> 407812, lon |-> -739665]
Equator == [lat |-> 0, lon |-> 100000]
Meridian == [lat |-> 515000, lon |-> 0]
Places == {Nyc1, Nyc2, Equator, Meridian}

\* a nullable column: <<>> is null, <<v>> holds v
NoValue == <<>>
Value(v) == <<v>>

\* notificationRadius, in metres
Radii == {0, 2000, 10000}

\* a row of the user table
UserRow(u, enableNotifications, lastLatitude, lastLongitude, notificationRadius) ==
    [id |-> u, isAnonymous |-> (u = "u3"), isAdmin |-> (u = "u2"),
     enableNotifications |-> enableNotifications,
     lastLatitude |-> lastLatitude, lastLongitude |-> lastLongitude,
     notificationRadius |-> notificationRadius]

\* the rows of the user table: a registered user, an administrator and a
\* stored anonymous user, none of whom has sent a location yet
UserTable == [u \in UserIds |-> UserRow(u, TRUE, NoValue, NoValue, 10000)]

\* socket.user as resolved by the handshake
SocketUser ==
    [c \in Sockets |->
        IF c = "c2" THEN [id |-> "anonymous_c2", isAnonymous |-> TRUE, isAdmin |-> FALSE]
                    ELSE [id |-> "u1", isAnonymous |-> FALSE, isAdmin |-> FALSE]]

----------------------------------------------------------------------------
(* Message text: a sequence of tokens (words, blanks, runs). *)

spamKeywords ==
    {"viagra", "casino", "loan", "bitcoin", "crypto", "get rich quick",
     "make money fast", "click here", "limited time offer", "act now", "free money"}

RepeatedRun == {"aaaaaaaaaaa"}
SpecialRun == {"!!!!!"}
UrlToken == {"http", "https", "www."}

Texts ==
    { <<>>,
      <<"hello">>,
      <<"viagra", " ", "casino", " ", "http">> }

\* texts at the edges of the validation of handleChatMessage: empty, blanks
\* only, exactly 1000 characters, 1001 characters, 1000 characters and a blank
EdgeTexts ==
    { <<>>,
      <<" ">>,
      <<" ", " ">>,
      <<"lorem1000">>,
      <<"lorem1001">>,
      <<"lorem1000", " ">> }

\* req.body.description of the requests spamDetection sees: none, short,
\* with a URL and a run of special characters, with two keywords, and a
\* short keyword in capitals
Descriptions ==
    { <<>>,
      <<"hello">>,
      <<"hello", " ", "http", " ", "!!!!!">>,
      <<"viagra", " ", "casino">>,
      <<"LOAN">> }

TokLen(tok) ==
    CASE tok = " " -> 1
      [] tok = "LOAN" -> 4
      [] tok = "loan" -> 4
      [] tok = "!!!!!" -> 5
      [] tok = "lorem1000" -> 1000
      [] tok = "lorem1001" -> 1001
      [] tok = "hello" -> 5
      [] tok = "viagra" -> 6
      [] tok = "casino" -> 6
      [] tok = "http" -> 4
      [] OTHER -> 1

RECURSIVE length(_)
length(text) ==
    IF text = <<>> THEN 0 ELSE TokLen(Head(text)) + length(Tail(text))

RECURSIVE trimStart(_)
trimStart(text) ==
    IF text # <<>> /\ Head(text) = " " THEN trimStart(Tail(text)) ELSE text

RECURSIVE trimEnd(_)
trimEnd(text) ==
    IF text # <<>> /\ text[Len(text)] = " "
    THEN trimEnd(SubSeq(text, 1, Len(text) - 1))
    ELSE text

\* a trim that removes nothing
trimNothing(text) == text

\* String.prototype.trim
trim(text) == trimEnd(trimStart(text))

Tokens(text) == {text[i] : i \in 1..Len(text)}

\* spamDetection, the content part of the score
KeywordScore(content) == 20 * Cardinality(spamKeywords \cap Tokens(content))

PatternScore(content) ==
      (IF Tokens(content) \cap RepeatedRun # {} THEN 15 ELSE 0)
    + (IF Tokens(content) \cap SpecialRun # {} THEN 15 ELSE 0)
    + (IF Tokens(content) \cap UrlToken # {} THEN 15 ELSE 0)

spamScore(content) == KeywordScore(content) + PatternScore(content)

\* String.prototype.toLowerCase, token by token
Lower(tok) == IF tok = "LOAN" THEN "loan" ELSE tok
toLowerCase(text) == [i \in DOMAIN text |-> Lower(text[i])]

\* desc.match(/[A-Z]/g).length
Caps(tok) == IF tok = "LOAN" THEN 4 ELSE 0

RECURSIVE capsCount(_)
capsCount(text) ==
    IF text = <<>> THEN 0 ELSE Caps(Head(text)) + capsCount(Tail(text))

\* the checks under  if (req.body.description): length below 10, length
\* above 5000, and capsRatio = capitals / length above 0.5
descriptionScore(desc) ==
    IF desc = <<>> THEN 0
    ELSE   (IF length(desc) < 10 THEN 10 ELSE 0)
         + (IF length(desc) > 5000 THEN 25 ELSE 0)
         + (IF 2 * capsCount(desc) > length(desc) THEN 20 ELSE 0)

\* spamScore as it stands when the frequency lookup is dispatched; the
\* content is JSON.stringify(req.body).toLowerCase()
contentScore(desc) == spamScore(toLowerCase(desc)) + descriptionScore(desc)

BlockThreshold == 50
FlagThreshold == 30
FrequencyIncrement == 30
FrequencyThreshold == 5

\* one hour, in ticks of half an hour
TicksPerHour == 2

\* a decision that blocks above the threshold only
decideAbove(score) ==
    IF score > BlockThreshold THEN "block"
    ELSE IF score > FlagThreshold THEN "flag"
    ELSE "allow"

\* the tests  spamScore >= 50  and  spamScore >= 30
decide(score) ==
    IF score >= BlockThreshold THEN "block"
    ELSE IF score >= FlagThreshold THEN "flag"
    ELSE "allow"

----------------------------------------------------------------------------
(* Emission helpers *)

NoOut == EmptyBag
ToSocket(c, ev, arg) == SetToBag({<<c, ev, arg>>})
ToRoom(S, ev, arg) == SetToBag({<<c, ev, arg>> : c \in S})

Recipients(ev, arg) == {c \in Sockets : BagIn(<<c, ev, arg>>, out)}

NoStep == [op |-> "init", sock |-> "none", sightingId |-> "none", id |-> 0, res |-> "none"]
Step(op, c, r, id, res) == [op |-> op, sock |-> c, sightingId |-> r, id |-> id, res |-> res]

\* a name for a new suspended invocation: the smallest one not in use
FreeId == CHOOSE i \in 1..(Cardinality(tasks) + 1) :
              /\ \A t \in tasks : t.id # i
              /\ \A j \in 1..(i - 1) : \E t \in tasks : t.id = j

\* member: the sender was in the sighting's room when the event arrived
Task(id, kind, c, r, pc, text, seq) ==
    [id |-> id, kind |-> kind, sock |-> c, sightingId |-> r, pc |-> pc,
     text |-> text, seq |-> seq, member |-> c \in rooms[r]]

----------------------------------------------------------------------------
(* socket.io primitives *)

\* a join that keeps a socket in one room at a time
socketJoinExclusive(rs, c, r) ==
    IF c \in closed THEN rs
    ELSE [x \in DOMAIN rs |-> IF x = r THEN rs[x] \cup {c} ELSE rs[x] \ {c}]

\* socket.join that still adds a socket whose transport has closed
socketJoinAfterClose(rs, c, r) == [rs EXCEPT ![r] = @ \cup {c}]

\* socket.join(room): Socket._cleanup replaces join by a no-op once the
\* transport has closed, so a closed socket is never added to a room.
socketJoin(rs, c, r) ==
    IF c \in closed THEN rs ELSE [rs EXCEPT ![r] = @ \cup {c}]

\* socket.leave(room)
socketLeave(rs, c, r) == [rs EXCEPT ![r] = @ \ {c}]

\* Socket.leaveAll(), run by the library when the transport closes
leaveAll(rs, c) == [r \in DOMAIN rs |-> rs[r] \ {c}]

\* a broadcast that does not leave out the sender
socketToWithSender(rs, c, r) == rs[r]

\* socket.to(room): every socket of the room except the sender
socketTo(rs, c, r) == rs[r] \ {c}

\* io.emit without a room: every connected socket
ioToEveryone(rs, r) == connectedUsers

\* io.to(room): every socket of the room
ioTo(rs, r) == rs[r]

\* the lookup's test without the isHidden part
sightingExists(r) == sightings[r] # "missing"

\* prisma.sighting.findUnique followed by the test  !sighting || sighting.isHidden
sightingFound(r) == sightings[r] = "visible"

\* prisma.chatMessage.findMany({where: {sightingId}, orderBy desc, take: 50}).reverse(),
\* as the ids of the rows
HistoryLimit == 50

RECURSIVE rowsOf(_, _)
rowsOf(table, r) ==
    IF table = <<>> THEN <<>>
    ELSE IF Head(table).sightingId = r
         THEN <<Head(table).seq>> \o rowsOf(Tail(table), r)
         ELSE rowsOf(Tail(table), r)

recentMessages(r) ==
    LET rows == rowsOf(chatMessages, r)
        n == Len(rows)
    IN IF n <= HistoryLimit THEN rows ELSE SubSeq(rows, n - HistoryLimit + 1, n)

(* The handshake: socketAuth (middleware/auth) and getUserFromToken (utils/auth) *)

\* socket.handshake.auth.token: absent, one jwt.verify rejects, or one signed for a user id
NoToken == [kind |-> "none", userId |-> "none"]
InvalidToken == [kind |-> "invalid", userId |-> "none"]
Jwt(u) == [kind |-> "jwt", userId |-> u]
AuthTokens == {NoToken, InvalidToken} \cup {Jwt(u) : u \in UserIds \cup {DeletedUserId}}

Null == [id |-> "null", isAnonymous |-> FALSE, isAdmin |-> FALSE]

\* the identity socketAuth makes up: anonymous_<socket id>
AnonymousUser(c) == [id |-> "anonymous_" \o c, isAnonymous |-> TRUE, isAdmin |-> FALSE]

\* verifyToken: jwt.verify gives the payload or throws
verifyToken(token) == token.kind = "jwt"

\* a lookup that trusts the payload and never reads the user table
getUserFromPayload(token, threw) ==
    IF ~verifyToken(token) THEN Null
    ELSE [id |-> token.userId, isAnonymous |-> FALSE, isAdmin |-> FALSE]

\* getUserFromToken: the row of the payload's user, or null when the token
\* does not verify, the row is gone, or prisma.user.findUnique rejects
getUserFromToken(token, threw) ==
    IF ~verifyToken(token) THEN Null
    ELSE IF threw THEN Null
    ELSE IF token.userId \in DOMAIN users
    THEN [id |-> users[token.userId].id,
          isAnonymous |-> users[token.userId].isAnonymous,
          isAdmin |-> users[token.userId].isAdmin]
    ELSE Null

NotStarted ==
    [state |-> "new", token |-> NoToken, threw |-> FALSE, user |-> Null,
     isAuthenticated |-> FALSE, next |-> "none"]

\* socketAuth has run to next(): what it left on the socket
Admitted(token, threw, user, isAuthenticated) ==
    [state |-> "admitted", token |-> token, threw |-> threw, user |-> user,
     isAuthenticated |-> isAuthenticated, next |-> "ok"]

\* socketAuth up to the await of getUserFromToken; inside that call
\* verifyToken runs at once, and only a token that verifies reaches prisma
socketAuth(c, token) ==
    /\ handshake[c].state = "new"
    /\ handshake' = [handshake EXCEPT ![c] =
           IF token = NoToken
           THEN Admitted(token, FALSE, AnonymousUser(c), FALSE)
           ELSE [NotStarted EXCEPT
                    !.state = IF verifyToken(token) THEN "findUnique" ELSE "resolved",
                    !.token = token]]

\* prisma.user.findUnique answers or rejects
findUniqueAnswers(c, threw) ==
    /\ handshake[c].state = "findUnique"
    /\ handshake' = [handshake EXCEPT ![c] = [@ EXCEPT !.state = "resolved", !.threw = threw]]

\* socketAuth from the answer of getUserFromToken to next()
socketAuthResume(c) ==
    /\ handshake[c].state = "resolved"
    /\ LET h == handshake[c]
           user == getUserFromToken(h.token, h.threw)
       IN handshake' = [handshake EXCEPT ![c] =
              IF user # Null
              THEN Admitted(h.token, h.threw, user, TRUE)
              ELSE Admitted(h.token, h.threw, AnonymousUser(c), FALSE)]

\* the connectTimeout of the socket.io server (45 s unless configured, and
\* the constructor does not configure it): a client whose middleware has not
\* called next() by then is closed
connectTimeout(c) ==
    /\ handshake[c].state \in {"findUnique", "resolved"}
    /\ handshake' = [handshake EXCEPT ![c] = [@ EXCEPT !.state = "closed"]]

----------------------------------------------------------------------------
(* Proximity notifications: notifyNearbyUsers (notificationService) and   *)
(* broadcastNewSighting, sendUserNotification (socketService)              *)

\* geoUtils.calculateDistance: the haversine distance (earth radius 6371 km)
\* of two places, in metres
calculateDistance(lat1, lon1, lat2, lon2) ==
    LET pair == {[lat |-> lat1, lon |-> lon1], [lat |-> lat2, lon |-> lon2]}
    IN IF Cardinality(pair) = 1 THEN 0
       ELSE IF pair = {Nyc1, Nyc2} THEN 2933
       ELSE IF pair = {Nyc1, Equator} THEN 9501329
       ELSE IF pair = {Nyc1, Meridian} THEN 5574292
       ELSE IF pair = {Nyc2, Equator} THEN 9499937
       ELSE IF pair = {Nyc2, Meridian} THEN 5571518
       ELSE 5803164

\* the truth value JavaScript gives a nullable number: null and 0 are false
Truthy(column) == column # NoValue /\ column[1] # 0

\* prisma.user.findMany: not anonymous, notifications enabled, both
\* coordinates not null
notifiableUsers ==
    {u \in DOMAIN users :
        /\ ~users[u].isAnonymous
        /\ users[u].enableNotifications
        /\ users[u].lastLatitude # NoValue
        /\ users[u].lastLongitude # NoValue}

\* the body of the loop: the users sendUserNotification is called for
usersToNotify(latitude, longitude) ==
    {u \in notifiableUsers :
        /\ Truthy(users[u].lastLatitude) /\ Truthy(users[u].lastLongitude)
        /\ calculateDistance(latitude, longitude,
                             users[u].lastLatitude[1], users[u].lastLongitude[1])
               <= users[u].notificationRadius}

\* a notification emitted to every connected socket instead of the user's room
sendToEveryone(U, sightingId) ==
    ToRoom(IF U = {} THEN {} ELSE connectedUsers, "notification", sightingId)

\* sendUserNotification: io.to('user:<id>').emit('notification'), for each user of U
sendUserNotifications(U, sightingId) ==
    ToRoom(UNION {ioTo(userRooms, u) : u \in U}, "notification", sightingId)

NoReturn ==
    [id |-> 0, kind |-> "none", sightingId |-> "none", latitude |-> 0, longitude |-> 0,
     threw |-> FALSE, failing |-> "none", pushed |-> {}, count |-> 0]

\* the orders findMany may return the rows of S in: the query has no orderBy
Orders(S) ==
    {order \in [1..Cardinality(S) -> S] :
        \A i, j \in 1..Cardinality(S) : i # j => order[i] # order[j]}

\* the iterations of the loop that call sendUserNotification, in order
RECURSIVE sendsOf(_, _, _)
sendsOf(order, latitude, longitude) ==
    IF order = <<>> THEN <<>>
    ELSE (IF Head(order) \in usersToNotify(latitude, longitude)
          THEN <<Head(order)>> ELSE <<>>)
         \o sendsOf(Tail(order), latitude, longitude)

\* the loop runs inside the one try of the pass: when the send for user
\* failing throws, the iterations after it do not run
RECURSIVE sentBefore(_, _)
sentBefore(sends, failing) ==
    IF sends = <<>> \/ Head(sends) = failing THEN {}
    ELSE {Head(sends)} \cup sentBefore(Tail(sends), failing)

FreePass == CHOOSE i \in 1..(Cardinality(passes) + 1) : \A q \in passes : q.id # i

\* notifyNearbyUsers, or broadcastNewSighting, up to the awaited findMany
startPass(kind, r, place) ==
    /\ passes' = passes \cup
          {[id |-> FreePass, kind |-> kind, sightingId |-> r,
            latitude |-> place.lat, longitude |-> place.lon]}
    /\ returned' = NoReturn
    /\ out' = NoOut
    /\ last' = Step(kind, "none", r, FreePass, "pending")
    /\ UNCHANGED <<connectedUsers, closed, rooms, userRooms, sightings, chatMessages,
                   tasks, typing, left, delivered, nEvents, nChat>>

notifyNearbyUsers(r, place) == startPass("notifyNearbyUsers", r, place)
broadcastNewSighting(r, place) == startPass("broadcastNewSighting", r, place)

\* the pass from the answer of findMany to its end: the loop over the users
\* and the return value, or the catch, which findMany rejecting and a send
\* throwing both reach
passAfterFindMany(q, threw, order, failing) ==
    /\ q \in passes
    /\ passes' = passes \ {q}
    /\ LET sends == IF threw THEN <<>> ELSE sendsOf(order, q.latitude, q.longitude)
           caught == threw \/ \E i \in DOMAIN sends : sends[i] = failing
           U == sentBefore(sends, failing)
       IN /\ out' = sendUserNotifications(U, q.sightingId)
          /\ returned' =
                [id |-> q.id, kind |-> q.kind, sightingId |-> q.sightingId,
                 latitude |-> q.latitude, longitude |-> q.longitude,
                 threw |-> caught,
                 failing |-> IF threw \/ ~caught THEN "none" ELSE failing,
                 pushed |-> U,
                 count |-> IF q.kind = "notifyNearbyUsers" /\ ~caught
                           THEN Cardinality(U) ELSE 0]
          /\ last' = Step("pass_done", "none", q.sightingId, q.id,
                          IF caught THEN "threw" ELSE "ok")
    /\ UNCHANGED <<connectedUsers, closed, rooms, userRooms, sightings, chatMessages,
                   tasks, typing, left, delivered, nEvents, nChat>>

NotifierIdle ==
    /\ passes = {}
    /\ returned = NoReturn

----------------------------------------------------------------------------
(* The REST chat route (routes/chat): chatMessageValidation, optionalAuth, *)
(* chatMessageLimiter, then createMessage (chatController)                 *)

\* max of chatMessageLimiter
ChatLimit == 30

\* express-rate-limit: the request is counted, and refused once the count
\* of the window is above max
limited(count) == count > ChatLimit

\* body('message').isLength({min: 1, max: 1000}), tested on the text as sent
messageValid(message) == length(message) >= 1 /\ length(message) <= 1000

Response(ip, status) == ToSocket(ip, "response", status)

\* POST /chat/sighting/:sightingId up to the awaits of optionalAuth
postChatMessage(ip, r, message) ==
    /\ tasks' = tasks \cup {Task(FreeId, "rest", ip, r, "optionalAuth", message, 0)}
    /\ out' = NoOut
    /\ last' = Step("post_chat", ip, r, FreeId, "pending")
    /\ UNCHANGED <<connectedUsers, closed, rooms, userRooms, sightings, chatMessages,
                   typing, left, delivered, nEvents, nChat, hits>>

\* optionalAuth has set req.user or answered 500; then chatMessageLimiter,
\* then createMessage up to the awaited sighting lookup
restAfterAuth(t, failed) ==
    /\ t \in tasks
    /\ t.kind = "rest"
    /\ t.pc = "optionalAuth"
    /\ IF failed
       THEN /\ tasks' = tasks \ {t}
            /\ out' = Response(t.sock, 500)
            /\ last' = Step("post_auth", t.sock, t.sightingId, 0, "failed")
            /\ UNCHANGED <<hits, nChat>>
       ELSE /\ hits' = hits + 1
            /\ IF limited(hits')
               THEN /\ tasks' = tasks \ {t}
                    /\ out' = Response(t.sock, 429)
                    /\ last' = Step("post_auth", t.sock, t.sightingId, 0, "limited")
                    /\ nChat' = nChat
               ELSE IF ~messageValid(t.text)
               THEN /\ tasks' = tasks \ {t}
                    /\ out' = Response(t.sock, 400)
                    /\ last' = Step("post_auth", t.sock, t.sightingId, 0, "invalid")
                    /\ nChat' = nChat
               ELSE /\ tasks' = (tasks \ {t}) \cup
                          {[t EXCEPT !.pc = "findUnique", !.seq = nChat + 1]}
                    /\ out' = NoOut
                    /\ last' = Step("post_auth", t.sock, t.sightingId, nChat + 1, "pending")
                    /\ nChat' = nChat + 1
    /\ UNCHANGED <<connectedUsers, closed, rooms, userRooms, sightings, chatMessages,
                   typing, left, delivered, nEvents>>

\* createMessage from the lookup's answer to the awaited create
restAfterFindUnique(t, threw) ==
    /\ t \in tasks
    /\ t.kind = "rest"
    /\ t.pc = "findUnique"
    /\ IF threw
       THEN /\ tasks' = tasks \ {t}
            /\ out' = Response(t.sock, 500)
            /\ last' = Step("post_lookup", t.sock, t.sightingId, t.seq, "threw")
       ELSE IF ~sightingFound(t.sightingId)
       THEN /\ tasks' = tasks \ {t}
            /\ out' = Response(t.sock, 404)
            /\ last' = Step("post_lookup", t.sock, t.sightingId, t.seq, "notfound")
       ELSE /\ tasks' = (tasks \ {t}) \cup {[t EXCEPT !.pc = "create"]}
            /\ out' = NoOut
            /\ last' = Step("post_lookup", t.sock, t.sightingId, t.seq, "found")
    /\ UNCHANGED <<connectedUsers, closed, rooms, userRooms, sightings, chatMessages,
                   typing, left, delivered, nEvents, nChat, hits>>

\* createMessage from the create's answer to the end; nothing is emitted
\* to the room
restAfterCreate(t, threw) ==
    /\ t \in tasks
    /\ t.kind = "rest"
    /\ t.pc = "create"
    /\ ~threw => sightings[t.sightingId] # "missing"
    /\ tasks' = tasks \ {t}
    /\ IF threw
       THEN /\ chatMessages' = chatMessages
            /\ out' = Response(t.sock, 500)
            /\ last' = Step("post_create", t.sock, t.sightingId, t.seq, "threw")
       ELSE /\ chatMessages' = Append(chatMessages,
                   [seq |-> t.seq, sightingId |-> t.sightingId, sock |-> t.sock,
                    message |-> trim(t.text)])
            /\ out' = Response(t.sock, 201)
            /\ last' = Step("post_create", t.sock, t.sightingId, t.seq, "created")
    /\ UNCHANGED <<connectedUsers, closed, rooms, userRooms, sightings, typing, left,
                   delivered, nEvents, nChat, hits>>

LimiterIdle == hits = 0

----------------------------------------------------------------------------
(* spamDetection (middleware/rateLimiting) *)

IpAddresses == {"ip1"}
Actions == {"/"}

\* rows of other routes this address used in the tick before the start
PriorActions == <<"/p1", "/p2", "/p3", "/p4", "/p5", "/p6", "/p7">>
PriorRows(n) ==
    {[ipAddress |-> "ip1", action |-> PriorActions[i], windowStart |-> 0,
      createdAt |-> 0, count |-> 1] : i \in 1..n}

BlockedText == "Content flagged as potential spam. Please try again with different content."

NoReply ==
    [id |-> 0, status |-> 0, error |-> "", next |-> FALSE, flagged |-> FALSE,
     failed |-> FALSE, content |-> 0, score |-> 0, count |-> 0]

\* the smallest request id not in use
FreeRequest == CHOOSE i \in 1..(Cardinality(requests) + 1) : \A q \in requests : q.id # i

\* windowStart: Math.floor(Date.now() / hour) * hour
windowOf(t) == (t \div TicksPerHour) * TicksPerHour

\* the rows findMany returns: this address, createdAt >= since
recentSubmissions(ip, since) ==
    {row \in submissionLog : row.ipAddress = ip /\ row.createdAt >= since}

RowsAt(ip, action, windowStart) ==
    {row \in submissionLog :
        row.ipAddress = ip /\ row.action = action /\ row.windowStart = windowStart}

\* prisma.submissionLog.upsert: count + 1 on the row of the key, or a new row
upsert(ip, action, windowStart) ==
    IF RowsAt(ip, action, windowStart) = {}
    THEN submissionLog \cup
            {[ipAddress |-> ip, action |-> action, windowStart |-> windowStart,
              createdAt |-> now, count |-> 1]}
    ELSE {IF row \in RowsAt(ip, action, windowStart)
          THEN [row EXCEPT !.count = @ + 1] ELSE row : row \in submissionLog}

\* a catch block that applies the decision to the score reached so far
catchDeciding(q) ==
    IF decide(q.spamScore) = "block"
    THEN [NoReply EXCEPT !.id = q.id, !.status = 429, !.error = BlockedText,
                         !.failed = TRUE, !.content = q.content, !.score = q.spamScore]
    ELSE [NoReply EXCEPT !.id = q.id, !.next = TRUE, !.failed = TRUE,
                         !.content = q.content, !.score = q.spamScore]

\* the catch block: log and next()
catchError(q) ==
    [NoReply EXCEPT !.id = q.id, !.next = TRUE, !.failed = TRUE,
                    !.content = q.content, !.score = q.spamScore]

\* spamDetection up to the awaited findMany
spamDetection(ip, action, desc) ==
    /\ requests' = requests \cup
          {[id |-> FreeRequest, ipAddress |-> ip, action |-> action, pc |-> "findMany",
            content |-> contentScore(desc), spamScore |-> contentScore(desc),
            since |-> now - TicksPerHour, windowStart |-> 0]}
    /\ nRequests' = nRequests + 1
    /\ UNCHANGED <<submissionLog, now, reply>>

\* spamDetection from the answer of findMany to the awaited upsert
spamAfterFindMany(q, threw) ==
    /\ q \in requests
    /\ q.pc = "findMany"
    /\ IF threw
       THEN /\ requests' = requests \ {q}
            /\ reply' = catchError(q)
       ELSE /\ requests' = (requests \ {q}) \cup
                  {[q EXCEPT
                      !.pc = "upsert",
                      !.spamScore =
                          IF Cardinality(recentSubmissions(q.ipAddress, q.since))
                                 > FrequencyThreshold
                          THEN @ + FrequencyIncrement ELSE @,
                      !.windowStart = windowOf(now)]}
            /\ reply' = reply
    /\ UNCHANGED <<submissionLog, now, nRequests>>

\* spamDetection from the answer of upsert to the end
spamAfterUpsert(q, threw) ==
    /\ q \in requests
    /\ q.pc = "upsert"
    /\ requests' = requests \ {q}
    /\ IF threw
       THEN /\ submissionLog' = submissionLog
            /\ reply' = catchError(q)
       ELSE /\ submissionLog' = upsert(q.ipAddress, q.action, q.windowStart)
            /\ reply' =
                  LET n == (CHOOSE row \in submissionLog' :
                                /\ row.ipAddress = q.ipAddress
                                /\ row.action = q.action
                                /\ row.windowStart = q.windowStart).count
                      base == [NoReply EXCEPT !.id = q.id, !.content = q.content,
                                              !.score = q.spamScore, !.count = n]
                  IN IF decide(q.spamScore) = "block"
                     THEN [base EXCEPT !.status = 429, !.error = BlockedText]
                     ELSE [base EXCEPT !.next = TRUE,
                                       !.flagged = (decide(q.spamScore) = "flag")]
    /\ UNCHANGED <<now, nRequests>>

\* time passes
tick ==
    /\ now' = now + 1
    /\ UNCHANGED <<submissionLog, requests, reply, nRequests>>

ScorerIdle ==
    /\ submissionLog = {}
    /\ now = 0
    /\ requests = {}
    /\ reply = NoReply
    /\ nRequests = 0

----------------------------------------------------------------------------
(* update_location: handleLocationUpdate and checkNearbyNotifications      *)
(* (socketService)                                                         *)

\* a value of the payload: a number, in 1/10000 of a degree, or something
\* that is not a number (a string, null, nothing)
Num(n) == [type |-> "number", value |-> n]
NotANumber == [type |-> "string", value |-> 0]

LocationPayload(latitude, longitude) ==
    [present |-> TRUE, latitude |-> latitude, longitude |-> longitude]

\* an event sent without a payload: data is undefined
NoData == [present |-> FALSE, latitude |-> NotANumber, longitude |-> NotANumber]

\* payloads of update_location: a place, the corners of the valid range,
\* the zero point, each bound exceeded by 1/10000 of a degree, values that
\* are not numbers, and no payload at all
LocationData ==
    { LocationPayload(Num(Nyc2.lat), Num(Nyc2.lon)),
      LocationPayload(Num(900000), Num(1800000)),
      LocationPayload(Num(-900000), Num(-1800000)),
      LocationPayload(Num(0), Num(0)),
      LocationPayload(Num(900001), Num(0)),
      LocationPayload(Num(-900001), Num(0)),
      LocationPayload(Num(0), Num(1800001)),
      LocationPayload(Num(0), Num(-1800001)),
      LocationPayload(NotANumber, Num(0)),
      LocationPayload(Num(0), NotANumber),
      NoData }

\* a validation that leaves out the bounds themselves
invalidCoordinatesAtBounds(latitude, longitude) ==
    \/ latitude.type # "number"
    \/ longitude.type # "number"
    \/ latitude.value <= -900000 \/ latitude.value >= 900000
    \/ longitude.value <= -1800000 \/ longitude.value >= 1800000

\* the test before the update: typeof ... !== 'number', latitude < -90,
\* latitude > 90, longitude < -180, longitude > 180
invalidCoordinates(latitude, longitude) ==
    \/ latitude.type # "number"
    \/ longitude.type # "number"
    \/ latitude.value < -900000 \/ latitude.value > 900000
    \/ longitude.value < -1800000 \/ longitude.value > 1800000

FreeUpdate == CHOOSE i \in 1..(Cardinality(updates) + 1) : \A t \in updates : t.id # i

\* the argument of location_updated and of nearby_sightings
Coordinates(latitude, longitude) == <<latitude, longitude>>

\* handleLocationUpdate up to the awaited prisma.user.update; destructuring
\* a missing payload throws inside the try
handleLocationUpdate(c, data) ==
    /\ c \in connectedUsers
    /\ nEvents' = nEvents + 1
    /\ IF handshake[c].user.isAnonymous
       THEN /\ out' = NoOut
            /\ last' = Step("update_location", c, "none", 0, "anonymous")
            /\ updates' = updates
       ELSE IF ~data.present
       THEN /\ out' = ToSocket(c, "error", "Failed to update location")
            /\ last' = Step("update_location", c, "none", 0, "threw")
            /\ updates' = updates
       ELSE IF invalidCoordinates(data.latitude, data.longitude)
       THEN /\ out' = ToSocket(c, "error", "Invalid coordinates")
            /\ last' = Step("update_location", c, "none", 0, "invalid")
            /\ updates' = updates
       ELSE /\ out' = NoOut
            /\ last' = Step("update_location", c, "none", FreeUpdate, "pending")
            /\ updates' = updates \cup
                  {[id |-> FreeUpdate, sock |-> c, userId |-> handshake[c].user.id,
                    pc |-> "update", latitude |-> data.latitude.value,
                    longitude |-> data.longitude.value]}
    /\ users' = users
    /\ UNCHANGED <<connectedUsers, closed, rooms, userRooms, sightings, chatMessages,
                   tasks, typing, left, delivered, nChat>>

\* from the answer of prisma.user.update to the awaited findUnique of
\* checkNearbyNotifications; the update rejects when the row is gone
locationAfterUpdate(t, threw) ==
    /\ t \in updates
    /\ t.pc = "update"
    /\ ~threw => t.userId \in DOMAIN users
    /\ IF threw
       THEN /\ updates' = updates \ {t}
            /\ users' = users
            /\ out' = ToSocket(t.sock, "error", "Failed to update location")
            /\ last' = Step("location_update", t.sock, "none", t.id, "threw")
       ELSE /\ updates' = (updates \ {t}) \cup {[t EXCEPT !.pc = "findUnique"]}
            /\ users' = [users EXCEPT ![t.userId] =
                             [@ EXCEPT !.lastLatitude = Value(t.latitude),
                                       !.lastLongitude = Value(t.longitude)]]
            /\ out' = NoOut
            /\ last' = Step("location_update", t.sock, "none", t.id, "stored")
    /\ UNCHANGED <<connectedUsers, closed, rooms, userRooms, sightings, chatMessages,
                   tasks, typing, left, delivered, nEvents, nChat>>

\* checkNearbyNotifications from the answer of findUnique: it returns when
\* the lookup rejects (its own catch), finds no row, or notifications are
\* off, and handleLocationUpdate then acknowledges; else findNearbySync is awaited
locationAfterFindUnique(t, threw) ==
    /\ t \in updates
    /\ t.pc = "findUnique"
    /\ IF threw \/ t.userId \notin DOMAIN users \/ ~users[t.userId].enableNotifications
       THEN /\ updates' = updates \ {t}
            /\ out' = ToSocket(t.sock, "location_updated",
                               Coordinates(t.latitude, t.longitude))
            /\ last' = Step("location_done", t.sock, "none", t.id, "ok")
       ELSE /\ updates' = (updates \ {t}) \cup {[t EXCEPT !.pc = "findNearbySync"]}
            /\ out' = NoOut
            /\ last' = Step("location_lookup", t.sock, "none", t.id, "found")
    /\ users' = users
    /\ UNCHANGED <<connectedUsers, closed, rooms, userRooms, sightings, chatMessages,
                   tasks, typing, left, delivered, nEvents, nChat>>

\* from the answer of geoUtils.findNearbySync to the end: nearby_sightings
\* when it found recent ones, then the acknowledgement
locationAfterFindNearby(t, threw, found) ==
    /\ t \in updates
    /\ t.pc = "findNearbySync"
    /\ updates' = updates \ {t}
    /\ out' = (IF ~threw /\ found
               THEN ToSocket(t.sock, "nearby_sightings", Coordinates(t.latitude, t.longitude))
               ELSE NoOut)
              (+) ToSocket(t.sock, "location_updated", Coordinates(t.latitude, t.longitude))
    /\ last' = Step("location_done", t.sock, "none", t.id, "ok")
    /\ users' = users
    /\ UNCHANGED <<connectedUsers, closed, rooms, userRooms, sightings, chatMessages,
                   tasks, typing, left, delivered, nEvents, nChat>>

LocationIdle == updates = {}

----------------------------------------------------------------------------
SocketInit ==
    /\ connectedUsers = {}
    /\ closed = {}
    /\ rooms = [r \in SightingIds |-> {}]
    /\ userRooms = [u \in UserIds |-> {}]
    /\ sightings \in [SightingIds -> {"visible", "hidden", "missing"}]
    /\ sightings["s1"] = "visible"
    /\ chatMessages = <<>>
    /\ tasks = {}
    /\ typing = {}
    /\ left = {}
    /\ delivered = [c \in Sockets |-> <<>>]
    /\ nEvents = 0
    /\ nChat = 0
    /\ out = NoOut
    /\ last = NoStep

\* the server with the handshakes of its two clients behind it: c1 came
\* with the token of u1, c2 without a token
Init ==
    /\ SocketInit
    /\ ScorerIdle
    /\ LimiterIdle
    /\ NotifierIdle
    /\ LocationIdle
    /\ users = UserTable
    /\ handshake = [c \in Sockets |->
            Admitted(IF c = "c2" THEN NoToken ELSE Jwt("u1"), FALSE,
                     SocketUser[c], ~SocketUser[c].isAnonymous)]

\* io.on('connection'), which socket.io runs once socketAuth has called
\* next(): register the socket, join the personal room
onConnection(c) ==
    /\ handshake[c].state = "admitted"
    /\ c \notin connectedUsers
    /\ c \notin closed
    /\ connectedUsers' = connectedUsers \cup {c}
    /\ userRooms' = IF handshake[c].user.isAnonymous
                    THEN userRooms
                    ELSE socketJoin(userRooms, c, handshake[c].user.id)
    /\ out' = NoOut
    /\ last' = Step("connection", c, "none", 0, "ok")
    /\ UNCHANGED <<closed, rooms, sightings, chatMessages, tasks, typing, left,
                   delivered, nEvents, nChat>>

\* handleJoinSighting up to the awaited sighting lookup; destructuring a
\* missing payload throws inside the try
handleJoinSighting(c, r) ==
    /\ c \in connectedUsers
    /\ nEvents' = nEvents + 1
    /\ IF r = NoPayload
       THEN /\ tasks' = tasks
            /\ out' = ToSocket(c, "error", "Failed to join sighting chat")
            /\ last' = Step("join_sighting", c, "none", 0, "threw")
       ELSE /\ tasks' = tasks \cup {Task(FreeId, "join", c, r, "findUnique", <<>>, 0)}
            /\ out' = NoOut
            /\ last' = Step("join_sighting", c, r, FreeId, "pending")
    /\ left' = left \ {<<c, r>>}
    /\ UNCHANGED <<connectedUsers, closed, rooms, userRooms, sightings, chatMessages,
                   typing, delivered, nChat>>

\* a join whose lookup continuation does not put the socket into the room
joinAfterFindUniqueUnjoined(t, threw) ==
    /\ t \in tasks
    /\ t.kind = "join"
    /\ t.pc = "findUnique"
    /\ IF threw
       THEN /\ tasks' = tasks \ {t}
            /\ out' = ToSocket(t.sock, "error", "Failed to join sighting chat")
            /\ last' = Step("join_lookup", t.sock, t.sightingId, t.id, "threw")
       ELSE IF ~sightingFound(t.sightingId)
       THEN /\ tasks' = tasks \ {t}
            /\ out' = ToSocket(t.sock, "error", "Sighting not found")
            /\ last' = Step("join_lookup", t.sock, t.sightingId, t.id, "notfound")
       ELSE /\ tasks' = (tasks \ {t}) \cup {[t EXCEPT !.pc = "findMany"]}
            /\ out' = ToRoom(socketTo(rooms, t.sock, t.sightingId), "user_joined", t.sock)
            /\ last' = Step("join_lookup", t.sock, t.sightingId, t.id, "joined")
    /\ UNCHANGED <<connectedUsers, closed, rooms, userRooms, sightings, chatMessages,
                   typing, left, delivered, nEvents, nChat>>

\* handleJoinSighting from the lookup's answer to the awaited history query
joinAfterFindUnique(t, threw) ==
    /\ t \in tasks
    /\ t.kind = "join"
    /\ t.pc = "findUnique"
    /\ IF threw
       THEN /\ tasks' = tasks \ {t}
            /\ rooms' = rooms
            /\ out' = ToSocket(t.sock, "error", "Failed to join sighting chat")
            /\ last' = Step("join_lookup", t.sock, t.sightingId, t.id, "threw")
       ELSE IF ~sightingFound(t.sightingId)
       THEN /\ tasks' = tasks \ {t}
            /\ rooms' = rooms
            /\ out' = ToSocket(t.sock, "error", "Sighting not found")
            /\ last' = Step("join_lookup", t.sock, t.sightingId, t.id, "notfound")
       ELSE /\ tasks' = (tasks \ {t}) \cup {[t EXCEPT !.pc = "findMany"]}
            /\ rooms' = socketJoin(rooms, t.sock, t.sightingId)
            /\ out' = ToRoom(socketTo(rooms', t.sock, t.sightingId), "user_joined", t.sock)
            /\ last' = Step("join_lookup", t.sock, t.sightingId, t.id, "joined")
    /\ UNCHANGED <<connectedUsers, closed, userRooms, sightings, chatMessages, typing,
                   left, delivered, nEvents, nChat>>

\* the store runs the history query of a join, some time between its
\* dispatch and its answer: the rows it reads are the answer
findManyRuns(t) ==
    /\ t \in tasks
    /\ t.kind = "join"
    /\ t.pc = "findMany"
    /\ tasks' = (tasks \ {t}) \cup
          {[t EXCEPT !.pc = "answered", !.text = recentMessages(t.sightingId)]}
    /\ out' = NoOut
    /\ last' = Step("join_query", t.sock, t.sightingId, t.id, "read")
    /\ UNCHANGED <<connectedUsers, closed, rooms, userRooms, sightings, chatMessages,
                   typing, left, delivered, nEvents, nChat>>

\* handleJoinSighting from the history query's answer to the end; a query
\* the store has not been seen to run yet runs as it answers
joinAfterFindMany(t, threw) ==
    /\ t \in tasks
    /\ t.kind = "join"
    /\ t.pc \in {"findMany", "answered"}
    /\ tasks' = tasks \ {t}
    /\ IF threw
       THEN /\ out' = ToSocket(t.sock, "error", "Failed to join sighting chat")
            /\ last' = Step("join_history", t.sock, t.sightingId, t.id, "threw")
       ELSE /\ out' = ToSocket(t.sock, "chat_history",
                               IF t.pc = "answered" THEN t.text
                               ELSE recentMessages(t.sightingId))
            /\ last' = Step("join_history", t.sock, t.sightingId, t.id, "ok")
    /\ UNCHANGED <<connectedUsers, closed, rooms, userRooms, sightings, chatMessages,
                   typing, left, delivered, nEvents, nChat>>

\* handleLeaveSighting; it has no try, so the TypeError of a missing payload
\* leaves the listener uncaught
handleLeaveSighting(c, r) ==
    /\ c \in connectedUsers
    /\ nEvents' = nEvents + 1
    /\ IF r = NoPayload
       THEN /\ rooms' = rooms
            /\ out' = NoOut
            /\ left' = left
            /\ last' = Step("leave_sighting", c, "none", 0, "uncaught")
       ELSE /\ rooms' = socketLeave(rooms, c, r)
            /\ out' = ToRoom(socketTo(rooms', c, r), "user_left", c)
            /\ left' = left \cup {<<c, r>>}
            /\ last' = Step("leave_sighting", c, r, 0, "ok")
    /\ typing' = typing
    /\ UNCHANGED <<connectedUsers, closed, userRooms, sightings, chatMessages, tasks,
                   delivered, nChat>>

\* a typing_start emitted with socket.broadcast: to every socket but the sender
handleTypingStartBroadcast(c, r) ==
    /\ c \in connectedUsers
    /\ nEvents' = nEvents + 1
    /\ out' = ToRoom(connectedUsers \ {c}, "user_typing", c)
    /\ typing' = typing \cup {<<c, r>>}
    /\ last' = Step("typing_start", c, r, 0, "ok")
    /\ UNCHANGED <<connectedUsers, closed, rooms, userRooms, sightings, chatMessages,
                   tasks, left, delivered, nChat>>

\* handleTypingStart, which has no try either
handleTypingStart(c, r) ==
    /\ c \in connectedUsers
    /\ nEvents' = nEvents + 1
    /\ IF r = NoPayload
       THEN /\ out' = NoOut
            /\ typing' = typing
            /\ last' = Step("typing_start", c, "none", 0, "uncaught")
       ELSE /\ out' = ToRoom(socketTo(rooms, c, r), "user_typing", c)
            /\ typing' = typing \cup {<<c, r>>}
            /\ last' = Step("typing_start", c, r, 0, "ok")
    /\ UNCHANGED <<connectedUsers, closed, rooms, userRooms, sightings, chatMessages,
                   tasks, left, delivered, nChat>>

\* handleTypingStop, which has no try either
handleTypingStop(c, r) ==
    /\ c \in connectedUsers
    /\ nEvents' = nEvents + 1
    /\ IF r = NoPayload
       THEN /\ out' = NoOut
            /\ typing' = typing
            /\ last' = Step("typing_stop", c, "none", 0, "uncaught")
       ELSE /\ out' = ToRoom(socketTo(rooms, c, r), "user_stopped_typing", c)
            /\ typing' = typing \ {<<c, r>>}
            /\ last' = Step("typing_stop", c, r, 0, "ok")
    /\ UNCHANGED <<connectedUsers, closed, rooms, userRooms, sightings, chatMessages,
                   tasks, left, delivered, nChat>>

\* handleChatMessage up to the awaited sighting lookup; destructuring a
\* missing payload throws inside the try
handleChatMessage(c, r, message) ==
    /\ c \in connectedUsers
    /\ nEvents' = nEvents + 1
    /\ IF r = NoPayload
       THEN /\ out' = ToSocket(c, "error", "Failed to send message")
            /\ last' = Step("chat_message", c, "none", 0, "threw")
            /\ UNCHANGED <<tasks, nChat>>
       ELSE IF message = <<>> \/ length(trim(message)) = 0
       THEN /\ out' = ToSocket(c, "error", "Message cannot be empty")
            /\ last' = Step("chat_message", c, r, 0, "empty")
            /\ UNCHANGED <<tasks, nChat>>
       ELSE IF length(message) > 1000
       THEN /\ out' = ToSocket(c, "error", "Message too long (max 1000 characters)")
            /\ last' = Step("chat_message", c, r, 0, "toolong")
            /\ UNCHANGED <<tasks, nChat>>
       ELSE /\ nChat' = nChat + 1
            /\ tasks' = tasks \cup
                   {Task(FreeId, "chat", c, r, "findUnique", message, nChat + 1)}
            /\ out' = NoOut
            /\ last' = Step("chat_message", c, r, nChat + 1, "pending")
    /\ UNCHANGED <<connectedUsers, closed, rooms, userRooms, sightings, chatMessages,
                   typing, left, delivered>>

\* handleChatMessage from the lookup's answer to the awaited create
chatAfterFindUnique(t, threw) ==
    /\ t \in tasks
    /\ t.kind = "chat"
    /\ t.pc = "findUnique"
    /\ IF threw
       THEN /\ tasks' = tasks \ {t}
            /\ out' = ToSocket(t.sock, "error", "Failed to send message")
            /\ last' = Step("chat_lookup", t.sock, t.sightingId, t.seq, "threw")
       ELSE IF ~sightingFound(t.sightingId)
       THEN /\ tasks' = tasks \ {t}
            /\ out' = ToSocket(t.sock, "error", "Sighting not found")
            /\ last' = Step("chat_lookup", t.sock, t.sightingId, t.seq, "notfound")
       ELSE /\ tasks' = (tasks \ {t}) \cup {[t EXCEPT !.pc = "create"]}
            /\ out' = NoOut
            /\ last' = Step("chat_lookup", t.sock, t.sightingId, t.seq, "found")
    /\ UNCHANGED <<connectedUsers, closed, rooms, userRooms, sightings, chatMessages,
                   typing, left, delivered, nEvents, nChat>>

\* the store writes the row of a create (it needs its sighting row), some
\* time between the dispatch of the create and its answer
createRuns(t) ==
    /\ t \in tasks
    /\ t.kind = "chat"
    /\ t.pc = "create"
    /\ sightings[t.sightingId] # "missing"
    /\ tasks' = (tasks \ {t}) \cup {[t EXCEPT !.pc = "created"]}
    /\ chatMessages' = Append(chatMessages,
           [seq |-> t.seq, sightingId |-> t.sightingId, sock |-> t.sock,
            message |-> trim(t.text)])
    /\ out' = NoOut
    /\ last' = Step("chat_commit", t.sock, t.sightingId, t.seq, "stored")
    /\ UNCHANGED <<connectedUsers, closed, rooms, userRooms, sightings, typing, left,
                   delivered, nEvents, nChat>>

\* handleChatMessage from the create's answer to the end: the row is written
\* (it needs its sighting row) and io.to(room).emit('new_chat_message') runs,
\* or the create rejects and the catch answers the author; a create the
\* store has not been seen to run yet runs as it answers
chatAfterCreate(t, threw) ==
    /\ t \in tasks
    /\ t.kind = "chat"
    /\ t.pc \in {"create", "created"}
    /\ t.pc = "created" => ~threw
    /\ ~threw => sightings[t.sightingId] # "missing"
    /\ tasks' = tasks \ {t}
    /\ IF threw
       THEN /\ chatMessages' = chatMessages
            /\ out' = ToSocket(t.sock, "error", "Failed to send message")
            /\ delivered' = delivered
            /\ last' = Step("chat_create", t.sock, t.sightingId, t.seq, "threw")
       ELSE /\ chatMessages' =
                   IF t.pc = "created" THEN chatMessages
                   ELSE Append(chatMessages,
                   [seq |-> t.seq, sightingId |-> t.sightingId, sock |-> t.sock,
                    message |-> trim(t.text)])
            /\ out' = ToRoom(ioTo(rooms, t.sightingId), "new_chat_message", t.seq)
            /\ delivered' = [c \in Sockets |->
                   delivered[c] \o
                   [i \in 1..CopiesIn(<<c, "new_chat_message", t.seq>>, out') |-> t.seq]]
            /\ last' = Step("chat_create", t.sock, t.sightingId, t.seq, "broadcast")
    /\ UNCHANGED <<connectedUsers, closed, rooms, userRooms, sightings, typing, left,
                   nEvents, nChat>>

\* a disconnect that also drops the socket's suspended handlers
handleDisconnectCancelling(c) ==
    /\ c \in connectedUsers
    /\ closed' = closed \cup {c}
    /\ rooms' = leaveAll(rooms, c)
    /\ userRooms' = leaveAll(userRooms, c)
    /\ connectedUsers' = connectedUsers \ {c}
    /\ tasks' = {t \in tasks : t.sock # c}
    /\ out' = NoOut
    /\ last' = Step("disconnect", c, "none", 0, "ok")
    /\ UNCHANGED <<sightings, chatMessages, typing, left, delivered, nEvents, nChat>>

\* transport close: the library leaves every room and disables join, then
\* the 'disconnect' listener runs handleDisconnect
handleDisconnect(c) ==
    /\ c \in connectedUsers
    /\ closed' = closed \cup {c}
    /\ rooms' = leaveAll(rooms, c)
    /\ userRooms' = leaveAll(userRooms, c)
    /\ connectedUsers' = connectedUsers \ {c}
    /\ out' = NoOut
    /\ last' = Step("disconnect", c, "none", 0, "ok")
    /\ UNCHANGED <<sightings, chatMessages, tasks, typing, left, delivered, nEvents, nChat>>

\* an exception no listener caught: by default the node process exits, and
\* every connection and every suspended handler goes with it
uncaughtException ==
    /\ last.res = "uncaught"
    /\ closed' = closed \cup connectedUsers
    /\ connectedUsers' = {}
    /\ rooms' = [r \in SightingIds |-> {}]
    /\ userRooms' = [u \in UserIds |-> {}]
    /\ tasks' = {}
    /\ updates' = {}
    /\ typing' = {}
    /\ out' = NoOut
    /\ last' = Step("exit", "none", "none", 0, "exited")
    /\ UNCHANGED <<sightings, chatMessages, left, delivered, nEvents, nChat, users>>

\* the same exception in a process that has an 'uncaughtException' listener:
\* it is logged and the event loop goes on
uncaughtExceptionListener ==
    /\ last.res = "uncaught"
    /\ out' = NoOut
    /\ last' = Step("uncaught_exception", last.sock, "none", 0, "logged")
    /\ UNCHANGED <<connectedUsers, closed, rooms, userRooms, sightings, chatMessages,
                   tasks, typing, left, delivered, nEvents, nChat, users, updates>>

\* the process is up and no exception is on its way out of a listener
Running == last.res # "uncaught" /\ last.op # "exit"

\* deleteSighting (sightingController): the sighting row is removed
deleteSighting(r) ==
    /\ sightings[r] # "missing"
    /\ sightings' = [sightings EXCEPT ![r] = "missing"]
    /\ out' = NoOut
    /\ last' = Step("delete_sighting", "none", r, 0, "ok")
    /\ UNCHANGED <<connectedUsers, closed, rooms, userRooms, chatMessages, tasks, typing,
                   left, delivered, nEvents, nChat>>

----------------------------------------------------------------------------
Connect == (\E c \in Sockets : onConnection(c)) /\ UNCHANGED exceptSocket
JoinSighting == (\E c \in Sockets, r \in SightingIds : handleJoinSighting(c, r)) /\ UNCHANGED exceptSocket
JoinLookup == (\E t \in tasks, threw \in BOOLEAN : joinAfterFindUnique(t, threw)) /\ UNCHANGED exceptSocket
JoinHistory == (\E t \in tasks, threw \in BOOLEAN : joinAfterFindMany(t, threw)) /\ UNCHANGED exceptSocket
LeaveSighting == (\E c \in Sockets, r \in SightingIds : handleLeaveSighting(c, r)) /\ UNCHANGED exceptSocket
TypingStart == (\E c \in Sockets, r \in SightingIds : handleTypingStart(c, r)) /\ UNCHANGED exceptSocket
TypingStop == (\E c \in Sockets, r \in SightingIds : handleTypingStop(c, r)) /\ UNCHANGED exceptSocket
ChatMessage ==
    (\E c \in Sockets, r \in SightingIds, m \in Texts : handleChatMessage(c, r, m))
        /\ nChat' <= MaxChat /\ UNCHANGED exceptSocket
ChatLookup == (\E t \in tasks, threw \in BOOLEAN : chatAfterFindUnique(t, threw)) /\ UNCHANGED exceptSocket
ChatCreate == (\E t \in tasks, threw \in BOOLEAN : chatAfterCreate(t, threw)) /\ UNCHANGED exceptSocket
ChatMessageEdge ==
    (\E c \in Sockets, r \in SightingIds, m \in EdgeTexts : handleChatMessage(c, r, m))
        /\ nChat' <= MaxChat /\ UNCHANGED exceptSocket
Disconnect == (\E c \in Sockets : handleDisconnect(c)) /\ UNCHANGED exceptSocket
DeleteSighting == (\E r \in SightingIds : deleteSighting(r)) /\ UNCHANGED exceptSocket
SocketAuth == (\E c \in Sockets, token \in AuthTokens : socketAuth(c, token)) /\ UNCHANGED exceptAuth
FindUniqueAnswers == (\E c \in Sockets, threw \in BOOLEAN : findUniqueAnswers(c, threw)) /\ UNCHANGED exceptAuth
SocketAuthResume == (\E c \in Sockets : socketAuthResume(c)) /\ UNCHANGED exceptAuth
ConnectTimeout == (\E c \in Sockets : connectTimeout(c)) /\ UNCHANGED exceptAuth
SpamDetection ==
    (\E ip \in IpAddresses, action \in Actions, desc \in Descriptions :
        spamDetection(ip, action, desc)) /\ UNCHANGED exceptScorer
SpamFindMany ==
    (\E q \in requests, threw \in BOOLEAN : spamAfterFindMany(q, threw))
        /\ UNCHANGED exceptScorer
SpamUpsert ==
    (\E q \in requests, threw \in BOOLEAN : spamAfterUpsert(q, threw))
        /\ UNCHANGED exceptScorer
Tick == tick /\ UNCHANGED exceptScorer
SubmitBorderline ==
    spamDetection("ip1", "/", <<"viagra", " ", "casino">>) /\ UNCHANGED exceptScorer

\* one client's burst of chat through one path, a message at a time, every
\* prisma call answering: the socket event, or the REST route
ChatBurst == handleChatMessage("c1", "s1", <<"hello">>) /\ UNCHANGED exceptSocket
ChatLookupAnswered == (\E t \in tasks : chatAfterFindUnique(t, FALSE)) /\ UNCHANGED exceptSocket
ChatCreateAnswered == (\E t \in tasks : chatAfterCreate(t, FALSE)) /\ UNCHANGED exceptSocket
PostBurst == postChatMessage("ip1", "s1", <<"hello">>) /\ UNCHANGED exceptRest
RestAuth == (\E t \in tasks, failed \in BOOLEAN : restAfterAuth(t, failed)) /\ UNCHANGED exceptRest
RestLookupAnswered == (\E t \in tasks : restAfterFindUnique(t, FALSE)) /\ UNCHANGED exceptRest
RestCreateAnswered == (\E t \in tasks : restAfterCreate(t, FALSE)) /\ UNCHANGED exceptRest

FindManyRuns == (\E t \in tasks : findManyRuns(t)) /\ UNCHANGED exceptSocket
CreateRuns == (\E t \in tasks : createRuns(t)) /\ UNCHANGED exceptSocket
ChatHello ==
    (\E c \in Sockets, r \in SightingIds : handleChatMessage(c, r, <<"hello">>))
        /\ nChat' <= MaxChat /\ UNCHANGED exceptSocket

\* the client events with any payload, a missing one included
JoinSightingAny == (\E c \in Sockets, r \in Payloads : handleJoinSighting(c, r)) /\ UNCHANGED exceptSocket
LeaveSightingAny == (\E c \in Sockets, r \in Payloads : handleLeaveSighting(c, r)) /\ UNCHANGED exceptSocket
TypingStartAny == (\E c \in Sockets, r \in Payloads : handleTypingStart(c, r)) /\ UNCHANGED exceptSocket
TypingStopAny == (\E c \in Sockets, r \in Payloads : handleTypingStop(c, r)) /\ UNCHANGED exceptSocket
ChatMessageAny ==
    (\E c \in Sockets, r \in Payloads : handleChatMessage(c, r, <<"hello">>))
        /\ nChat' <= MaxChat /\ UNCHANGED exceptSocket
UncaughtException == uncaughtException /\ UNCHANGED exceptLocation
UncaughtExceptionListener == uncaughtExceptionListener /\ UNCHANGED exceptLocation

UpdateLocation ==
    (\E c \in Sockets, data \in LocationData : handleLocationUpdate(c, data))
        /\ UNCHANGED exceptLocation
LocationUpdate ==
    (\E t \in updates, threw \in BOOLEAN : locationAfterUpdate(t, threw))
        /\ UNCHANGED exceptLocation
LocationFindUnique ==
    (\E t \in updates, threw \in BOOLEAN : locationAfterFindUnique(t, threw))
        /\ UNCHANGED exceptLocation
LocationFindNearby ==
    (\E t \in updates, threw \in BOOLEAN, found \in BOOLEAN :
        locationAfterFindNearby(t, threw, found))
        /\ UNCHANGED exceptLocation

NotifyNearbyUsers ==
    (\E place \in Places : notifyNearbyUsers("s1", place)) /\ UNCHANGED exceptNotify
BroadcastNewSighting ==
    (\E place \in Places : broadcastNewSighting("s1", place)) /\ UNCHANGED exceptNotify
PassFindMany ==
    (\E q \in passes :
        \/ \E order \in Orders(notifiableUsers), failing \in notifiableUsers \cup {"none"} :
              passAfterFindMany(q, FALSE, order, failing)
        \/ passAfterFindMany(q, TRUE, <<>>, "none"))
        /\ UNCHANGED exceptNotify

Budget(n) == nEvents < n

\* membership and chat; the typing handlers, which write nothing, are
\* exercised by PresenceSpec, and the removal of a sighting by OrderSpec
Next ==
    \/ Connect
    \/ Budget(MaxEvents) /\ JoinSighting
    \/ JoinLookup
    \/ JoinHistory
    \/ Budget(MaxEvents) /\ LeaveSighting
    \/ Budget(MaxEvents) /\ ChatMessage
    \/ ChatLookup
    \/ ChatCreate
    \/ Disconnect

Spec == Init /\ [][Next]_vars

\* joins, chat messages and disconnects; every awaited prisma call is
\* answered, and its continuation then runs
FairNext ==
    \/ Connect
    \/ Budget(MaxFairEvents) /\ JoinSighting
    \/ JoinLookup
    \/ JoinHistory
    \/ Budget(MaxFairEvents) /\ ChatMessage
    \/ ChatLookup
    \/ ChatCreate
    \/ Disconnect

FairSpec ==
    /\ Init
    /\ [][FairNext]_vars
    /\ WF_vars(JoinLookup)
    /\ WF_vars(JoinHistory)
    /\ WF_vars(ChatLookup)
    /\ WF_vars(ChatCreate)

\* joins, chat messages and the removal of sightings, one event deeper
OrderNext ==
    \/ Connect
    \/ Budget(MaxOrderEvents) /\ JoinSighting
    \/ JoinLookup
    \/ JoinHistory
    \/ Budget(MaxOrderEvents) /\ ChatMessage
    \/ ChatLookup
    \/ ChatCreate
    \/ DeleteSighting

OrderSpec == Init /\ [][OrderNext]_vars

\* presence and typing, one event deeper
PresenceNext ==
    \/ Connect
    \/ Budget(MaxPresenceEvents) /\ JoinSighting
    \/ JoinLookup
    \/ JoinHistory
    \/ Budget(MaxPresenceEvents) /\ LeaveSighting
    \/ Budget(MaxPresenceEvents) /\ TypingStart
    \/ Budget(MaxPresenceEvents) /\ TypingStop
    \/ Disconnect

PresenceSpec == Init /\ [][PresenceNext]_vars

\* joins and chat messages with the texts at the edges of the validation
ValidationNext ==
    \/ Connect
    \/ Budget(MaxValidationEvents) /\ JoinSighting
    \/ JoinLookup
    \/ JoinHistory
    \/ Budget(MaxValidationEvents) /\ ChatMessageEdge
    \/ ChatLookup
    \/ ChatCreate

ValidationSpec == Init /\ [][ValidationNext]_vars

\* requests through spamDetection, two at a time at most, against a log
\* that may hold rows of earlier requests
ScorerInit ==
    /\ SocketInit
    /\ sightings = [r \in SightingIds |-> "visible"]
    /\ users = UserTable
    /\ handshake = [c \in Sockets |-> NotStarted]
    /\ \E n \in 0..MaxPriorRows : submissionLog = PriorRows(n)
    /\ now = 0
    /\ requests = {}
    /\ reply = NoReply
    /\ nRequests = 0
    /\ LimiterIdle
    /\ NotifierIdle
    /\ LocationIdle

ScorerNext ==
    \/ nRequests < MaxScorerRequests /\ SpamDetection
    \/ SpamFindMany
    \/ SpamUpsert
    \/ now < MaxClock /\ Tick

ScorerSpec == ScorerInit /\ [][ScorerNext]_vars

\* one address sending the same submission over and over, one request at a
\* time, against an empty log: its content scores 40
LoadInit ==
    /\ SocketInit
    /\ sightings = [r \in SightingIds |-> "visible"]
    /\ users = UserTable
    /\ handshake = [c \in Sockets |-> NotStarted]
    /\ ScorerIdle
    /\ LimiterIdle
    /\ NotifierIdle
    /\ LocationIdle

LoadNext ==
    \/ nRequests < MaxLoadRequests /\ requests = {} /\ SubmitBorderline
    \/ SpamFindMany
    \/ SpamUpsert
    \/ now < MaxClock /\ Tick

LoadSpec == LoadInit /\ [][LoadNext]_vars

\* a burst of chat within one window of chatMessageLimiter, all of it
\* through the socket or all of it through the REST route
RateNext ==
    \/ Connect
    \/ nChat = 0 /\ Budget(MaxRateJoins) /\ JoinSighting
    \/ JoinLookup
    \/ JoinHistory
    \/ tasks = {} /\ hits = 0 /\ nChat < MaxRateChat /\ ChatBurst
    \/ ChatLookupAnswered
    \/ ChatCreateAnswered
    \/ tasks = {} /\ nChat <= hits /\ hits < MaxRateChat /\ PostBurst
    \/ RestAuth
    \/ RestLookupAnswered
    \/ RestCreateAnswered

RateSpec == Init /\ [][RateNext]_vars

\* notification passes for new sightings at any of the places, while the
\* clients connect and disconnect; c1 is the registered user u1, c2 is u1
\* too, the administrator u2, or anonymous; u1 has no location or any of the
\* places, any radius and setting (handleLocationUpdate writes latitude and
\* longitude together); u2 and the stored anonymous user u3 are in New York
NotifyInit ==
    /\ SocketInit
    /\ sightings = [r \in SightingIds |-> "visible"]
    /\ ScorerIdle
    /\ LimiterIdle
    /\ NotifierIdle
    /\ LocationIdle
    /\ \E enabled \in BOOLEAN, radius \in Radii,
          lat \in {NoValue} \cup {Value(pl.lat) : pl \in Places},
          lon \in {NoValue} \cup {Value(pl.lon) : pl \in Places} :
          /\ IF lat = NoValue \/ lon = NoValue THEN lat = lon
             ELSE [lat |-> lat[1], lon |-> lon[1]] \in Places
          /\ users = [u \in UserIds |->
                IF u = "u1" THEN UserRow(u, enabled, lat, lon, radius)
                ELSE UserRow(u, TRUE, Value(Nyc1.lat), Value(Nyc1.lon), 10000)]
    /\ \E h \in {Admitted(Jwt(u), FALSE,
                          [id |-> u, isAnonymous |-> FALSE, isAdmin |-> (u = "u2")], TRUE) :
                    u \in {"u1", "u2"}}
                \cup {Admitted(NoToken, FALSE, AnonymousUser("c2"), FALSE)} :
          handshake = [c \in Sockets |->
              IF c = "c2" THEN h
              ELSE Admitted(Jwt("u1"), FALSE,
                            [id |-> "u1", isAnonymous |-> FALSE, isAdmin |-> FALSE], TRUE)]

NotifyNext ==
    \/ Connect
    \/ Disconnect
    \/ Cardinality(passes) < MaxPasses /\ NotifyNearbyUsers
    \/ Cardinality(passes) < MaxPasses /\ BroadcastNewSighting
    \/ PassFindMany

NotifySpec == NotifyInit /\ [][NotifyNext]_vars

\* the same passes with the stored locations fixed in New York and only the
\* radius of u1 varying, to follow who is sent a notification: c1 is a
\* connection of u1, c2 one of u1, of u2, or anonymous
DeviceInit ==
    /\ SocketInit
    /\ sightings = [r \in SightingIds |-> "visible"]
    /\ ScorerIdle
    /\ LimiterIdle
    /\ NotifierIdle
    /\ LocationIdle
    /\ \E radius \in Radii :
          users = [u \in UserIds |->
                UserRow(u, TRUE, Value(Nyc1.lat), Value(Nyc1.lon),
                        IF u = "u1" THEN radius ELSE 10000)]
    /\ \E h \in {Admitted(Jwt(u), FALSE,
                          [id |-> u, isAnonymous |-> FALSE, isAdmin |-> (u = "u2")], TRUE) :
                    u \in {"u1", "u2"}}
                \cup {Admitted(NoToken, FALSE, AnonymousUser("c2"), FALSE)} :
          handshake = [c \in Sockets |->
              IF c = "c2" THEN h
              ELSE Admitted(Jwt("u1"), FALSE,
                            [id |-> "u1", isAnonymous |-> FALSE, isAdmin |-> FALSE], TRUE)]

DeviceSpec == DeviceInit /\ [][NotifyNext]_vars

\* the handshakes of the two clients from the start, then their connection
\* events; the continuation of socketAuth runs once the lookup has answered,
\* and nothing makes the lookup answer: socketAuth sets no timer of its own
HandshakeInit ==
    /\ SocketInit
    /\ ScorerIdle
    /\ LimiterIdle
    /\ NotifierIdle
    /\ LocationIdle
    /\ users = UserTable
    /\ handshake = [c \in Sockets |-> NotStarted]

HandshakeNext ==
    \/ SocketAuth
    \/ FindUniqueAnswers
    \/ SocketAuthResume
    \/ ConnectTimeout
    \/ Connect

HandshakeSpec ==
    /\ HandshakeInit
    /\ [][HandshakeNext]_vars
    /\ WF_vars(SocketAuthResume)
    /\ WF_vars(Connect)

\* location updates of two connections: c1 is a connection of u1, c2 another
\* one of u1 or anonymous; u1 has notifications on or off
LocationInit ==
    /\ SocketInit
    /\ sightings = [r \in SightingIds |-> "visible"]
    /\ ScorerIdle
    /\ LimiterIdle
    /\ NotifierIdle
    /\ LocationIdle
    /\ \E enabled \in BOOLEAN :
          users = [u \in UserIds |-> UserRow(u, enabled, NoValue, NoValue, 10000)]
    /\ \E h \in {Admitted(Jwt("u1"), FALSE,
                          [id |-> "u1", isAnonymous |-> FALSE, isAdmin |-> FALSE], TRUE),
                 Admitted(NoToken, FALSE, AnonymousUser("c2"), FALSE)} :
          handshake = [c \in Sockets |->
              IF c = "c2" THEN h
              ELSE Admitted(Jwt("u1"), FALSE,
                            [id |-> "u1", isAnonymous |-> FALSE, isAdmin |-> FALSE], TRUE)]

LocationNext ==
    \/ Connect
    \/ Disconnect
    \/ Budget(MaxLocationEvents) /\ UpdateLocation
    \/ LocationUpdate
    \/ LocationFindUnique
    \/ LocationFindNearby

LocationSpec == LocationInit /\ [][LocationNext]_vars

\* every client event, with and without a payload, every collaborator
\* answering or failing
CrashNext ==
    \/ Running /\ Connect
    \/ Running /\ Budget(MaxCrashEvents) /\ JoinSightingAny
    \/ Running /\ JoinLookup
    \/ Running /\ JoinHistory
    \/ Running /\ Budget(MaxCrashEvents) /\ LeaveSightingAny
    \/ Running /\ Budget(MaxCrashEvents) /\ TypingStartAny
    \/ Running /\ Budget(MaxCrashEvents) /\ TypingStopAny
    \/ Running /\ Budget(MaxCrashEvents) /\ ChatMessageAny
    \/ Running /\ ChatLookup
    \/ Running /\ ChatCreate
    \/ Running /\ Budget(MaxCrashEvents) /\ UpdateLocation
    \/ Running /\ LocationUpdate
    \/ Running /\ LocationFindUnique
    \/ Running /\ LocationFindNearby
    \/ Running /\ Disconnect
    \/ UncaughtException
    \/ UncaughtExceptionListener

CrashSpec == Init /\ [][CrashNext]_vars

\* joins racing with chat messages, by clients that stay in the rooms they
\* joined until they disconnect: the store runs each history query and each
\* create at any moment between its dispatch and its answer
RaceInit ==
    /\ Init
    /\ sightings = [r \in SightingIds |-> "visible"]

RaceNext ==
    \/ Connect
    \/ Budget(MaxRaceEvents) /\ JoinSighting
    \/ JoinLookup
    \/ FindManyRuns
    \/ JoinHistory
    \/ Budget(MaxRaceEvents) /\ ChatHello
    \/ ChatLookup
    \/ CreateRuns
    \/ ChatCreate
    \/ Disconnect

RaceSpec == RaceInit /\ [][RaceNext]_vars

ErrorMessages ==
    {"Sighting not found", "Failed to join sighting chat", "Message cannot be empty",
     "Message too long (max 1000 characters)", "Failed to send message"}

\* the step ends the handling of chat message t
ChatDone(t) ==
    /\ t \in tasks
    /\ t.kind = "chat"
    /\ ~\E u \in tasks' : u.kind = "chat" /\ u.seq = t.seq

\* the step rejects chat message t: nothing stored, nothing broadcast, an error to its author only
ChatRejected(t) ==
    /\ chatMessages' = chatMessages
    /\ \A e \in BagToSet(out') : e[2] # "new_chat_message"
    /\ \E m \in ErrorMessages : out' = ToSocket(t.sock, "error", m)

Row(seq) == CHOOSE m \in {chatMessages[i] : i \in DOMAIN chatMessages} : m.seq = seq
Stored(seq) == \E i \in DOMAIN chatMessages : chatMessages[i].seq = seq

TypeOK ==
    /\ connectedUsers \subseteq Sockets
    /\ closed \subseteq Sockets
    /\ \A r \in SightingIds : rooms[r] \subseteq Sockets
    /\ nEvents \in Nat
    /\ nChat \in 0..MaxChat

----------------------------------------------------------------------------
(* C1: a chat_message for sighting R from a connection that is not a member *)
(* of room R is rejected: nothing is stored, no new_chat_message is emitted *)
(* and only the sender gets an error.                                       *)
C1_NonMemberRejected ==
    [][\A t \in tasks :
          (ChatDone(t) /\ ~t.member /\ t.sock \notin rooms[t.sightingId])
              => ChatRejected(t)]_vars

(* C2: an accepted chat message for room R is emitted as new_chat_message   *)
(* exactly once to each member of R at broadcast time, the author included  *)
(* when a member, and to no connection outside R.                           *)
C2_BroadcastExactlyMembers ==
    (last.op = "chat_create" /\ Stored(last.id))
        => \A c \in Sockets :
              CopiesIn(<<c, "new_chat_message", last.id>>, out) =
                  IF c \in rooms[last.sightingId] THEN 1 ELSE 0

C2_Witness ==
    /\ last.op = "chat_create"
    /\ last.res = "broadcast"
    /\ last.sock \in rooms[last.sightingId]
    /\ BagIn(<<last.sock, "new_chat_message", last.id>>, out)
    /\ \E c \in connectedUsers : c \notin rooms[last.sightingId]

(* C3: a chat_message whose abuse score is at or above the block threshold  *)
(* is not stored and reaches no member; its author alone gets an error.     *)
C3_BlockedNotDelivered ==
    [][\A t \in tasks :
          (ChatDone(t) /\ spamScore(t.text) >= BlockThreshold) => ChatRejected(t)]_vars

(* C4: per-author FIFO: two accepted messages of one connection for one     *)
(* room reach every member that receives both in submission order.          *)
C4_PerAuthorFifo ==
    \A c \in Sockets : \A i, j \in DOMAIN delivered[c] :
        ( /\ i < j
          /\ Row(delivered[c][i]).sock = Row(delivered[c][j]).sock
          /\ Row(delivered[c][i]).sightingId = Row(delivered[c][j]).sightingId )
            => delivered[c][i] <= delivered[c][j]

(* C5: once leave_sighting(R) from c has been handled, c is not a member of *)
(* R and is sent no new_chat_message for R until c sends another join for R.*)
C5_LeaverStaysOut ==
    \A p \in left :
        /\ p[1] \notin rooms[p[2]]
        /\ ~\E e \in BagToSet(out) :
              /\ e[1] = p[1]
              /\ e[2] = "new_chat_message"
              /\ Row(e[3]).sightingId = p[2]

(* C6: after its disconnect has been handled, a connection is in no room,   *)
(* not in the connected-users registry and not in its user's notification   *)
(* room, also when one of its joins was still awaiting the sighting lookup. *)
C6_DisconnectedGone ==
    \A c \in closed :
        /\ c \notin connectedUsers
        /\ \A r \in SightingIds : c \notin rooms[r]
        /\ \A u \in UserIds : c \notin userRooms[u]

C6_Witness ==
    /\ last.op = "join_lookup"
    /\ last.res = "joined"
    /\ last.sock \in closed
    /\ ~SocketUser[last.sock].isAnonymous

(* C7: when a connection that is typing in room R disconnects, every        *)
(* remaining member of R is sent user_stopped_typing or user_left for it,   *)
(* and R loses exactly one member.                                          *)
C7_TypingStopOnDisconnect ==
    [][\A c \in Sockets, r \in SightingIds :
          (c \in connectedUsers /\ c \in closed' /\ <<c, r>> \in typing /\ c \in rooms[r])
              => /\ \A m \in rooms'[r] :
                        \/ BagIn(<<m, "user_stopped_typing", c>>, out')
                        \/ BagIn(<<m, "user_left", c>>, out')
                 /\ Cardinality(rooms'[r]) = Cardinality(rooms[r]) - 1]_vars

(* C8 as stated: a chat message that passed validation and the sighting     *)
(* check ends stored and broadcast to the members of its room.              *)
C8_AcceptedAlwaysBroadcast ==
    (last.op = "chat_create")
        => /\ Stored(last.id)
           /\ Recipients("new_chat_message", last.id) = rooms[last.sightingId]

AtCreate(seq) == \E t \in tasks : t.kind = "chat" /\ t.seq = seq /\ t.pc = "create"

Finished(seq) ==
    /\ last.op = "chat_create"
    /\ last.id = seq
    /\ \/ /\ Stored(seq)
          /\ Recipients("new_chat_message", seq) = rooms[last.sightingId]
       \/ /\ ~Stored(seq)
          /\ out = ToSocket(last.sock, "error", "Failed to send message")

(* C8 amended: a chat message that passed validation and the sighting check *)
(* is eventually either stored and broadcast to every member of its room,   *)
(* or, when the store write fails, answered with an error to its author;    *)
(* the author's disconnect cancels neither.                                 *)
C8_AcceptedCompletes == \A seq \in 1..MaxChat : AtCreate(seq) ~> Finished(seq)

C8_Witness ==
    /\ last.op = "chat_create"
    /\ Stored(last.id)
    /\ last.sock \in closed
    /\ rooms[last.sightingId] # {}
    /\ Recipients("new_chat_message", last.id) = rooms[last.sightingId]

(* C9: join_sighting for a missing or hidden sighting emits an error to the *)
(* joiner and nothing else: no membership change, no user_joined, no        *)
(* chat_history, and the handling ends there.                               *)
C9_NotFoundNoSideEffects ==
    [][(last'.op = "join_lookup" /\ last'.res # "threw"
            /\ sightings[last'.sightingId] # "visible")
          => /\ rooms' = rooms
             /\ chatMessages' = chatMessages
             /\ out' = ToSocket(last'.sock, "error", "Sighting not found")
             /\ ~\E u \in tasks' : u.kind = "join" /\ u.id = last'.id]_vars

C9_Witness ==
    /\ last.op = "join_lookup"
    /\ last.res = "notfound"
    /\ sightings[last.sightingId] = "hidden"
    /\ last.sock \in connectedUsers
    /\ rooms["s1"] # {}

----------------------------------------------------------------------------
IsBlank(text) == \A i \in DOMAIN text : text[i] = " "

C12_AcceptedRoomExists ==
    \A r \in SightingIds :
        (last.op = "chat_create" /\ last.res = "broadcast" /\ last.sightingId = r)
            => /\ rooms[r] # {}
               /\ sightings[r] = "visible"

----------------------------------------------------------------------------
\* the token of socket c's handshake resolves to a stored user
Resolves(c) ==
    /\ handshake[c].token.kind = "jwt"
    /\ handshake[c].token.userId \in DOMAIN users
    /\ ~handshake[c].threw

(* C13: the handshake never refuses a connection: next() is never called    *)
(* with an error; with no token, an invalid token, a token whose user row   *)
(* is gone, or a failing user lookup, the socket is admitted as             *)
(* anonymous_<socket id> with isAnonymous true, isAdmin false and           *)
(* isAuthenticated false; isAuthenticated is true only when the token       *)
(* resolved to a stored user, whose row is then the socket's user.          *)
C13_HandshakeNeverRefuses ==
    \A c \in Sockets :
        /\ handshake[c].next # "error"
        /\ handshake[c].state = "admitted" =>
              /\ handshake[c].next = "ok"
              /\ ~Resolves(c) =>
                    /\ handshake[c].user =
                          [id |-> "anonymous_" \o c, isAnonymous |-> TRUE, isAdmin |-> FALSE]
                    /\ ~handshake[c].isAuthenticated
              /\ handshake[c].isAuthenticated =>
                    /\ Resolves(c)
                    /\ handshake[c].user.id = handshake[c].token.userId
                    /\ handshake[c].user.isAnonymous = users[handshake[c].user.id].isAnonymous
                    /\ handshake[c].user.isAdmin = users[handshake[c].user.id].isAdmin

C13_Witness ==
    /\ handshake["c1"].state = "admitted"
    /\ handshake["c1"].token = Jwt(DeletedUserId)
    /\ handshake["c1"].user.id = "anonymous_c1"
    /\ "c1" \in connectedUsers
    /\ handshake["c2"].state = "admitted"
    /\ handshake["c2"].token = Jwt("u2")
    /\ handshake["c2"].isAuthenticated
    /\ "c2" \in userRooms["u2"]

(* C14: every handshake eventually completes: a socket whose user lookup    *)
(* has been dispatched is admitted, as anonymous when the lookup does not   *)
(* answer within a bounded wait.                                            *)
C14_HandshakeCompletes ==
    \A c \in Sockets :
        (handshake[c].state = "findUnique") ~> (handshake[c].state = "admitted")

----------------------------------------------------------------------------
(* C15: the decision of spamDetection is a function of the score alone: a   *)
(* score of 50 or more is answered 429 with one fixed text and next() is    *)
(* not called; a score from 30 to 49 is logged as suspicious and the        *)
(* request proceeds; a score below 30 proceeds unflagged.                   *)
C15_DecisionByScore ==
    (reply.id # 0 /\ ~reply.failed) =>
        /\ reply.score >= 50 =>
              /\ reply.status = 429
              /\ ~reply.next
              /\ reply.error =
                    "Content flagged as potential spam. Please try again with different content."
        /\ (reply.score >= 30 /\ reply.score < 50) =>
              reply.next /\ reply.flagged /\ reply.status = 0
        /\ reply.score < 30 =>
              reply.next /\ ~reply.flagged /\ reply.status = 0

C15_Witness ==
    /\ reply.id # 0
    /\ ~reply.failed
    /\ reply.score = 50
    /\ reply.status = 429
    /\ reply.content = 50

(* C16: when the read or the increment of the frequency counter fails,      *)
(* spamDetection fails open: next() is called and no response is sent,      *)
(* whatever score had been reached.                                         *)
C16_FailOpen ==
    reply.failed => (reply.next /\ reply.status = 0 /\ reply.error = "")

C16_Witness ==
    /\ reply.failed
    /\ reply.next
    /\ reply.content < 50
    /\ reply.score >= 50

(* C17: one address sends 11 submissions of one action type within one      *)
(* hour, each with the same content score that is below the block           *)
(* threshold by no more than the frequency increment: the 9th is allowed,   *)
(* and the 11th is rejected because the frequency increment is added.       *)
C17_EleventhRejected ==
    (reply.id # 0 /\ ~reply.failed /\ reply.content >= 50 - 30 /\ reply.content < 50) =>
        /\ reply.count = 9 => (reply.next /\ reply.status = 0)
        /\ reply.count = 11 => (reply.status = 429 /\ ~reply.next)

(* C18: chat messages are limited to 30 per actor per one-minute window on  *)
(* every inbound path: within one window no more than 30 messages of one    *)
(* connection, and no more than 30 of one address through the REST route,   *)
(* are accepted; the 31st is rejected.                                      *)
C18_ChatLimited ==
    \A a \in Sockets \cup IpAddresses :
        Cardinality({i \in DOMAIN chatMessages : chatMessages[i].sock = a}) <= 30

----------------------------------------------------------------------------
\* the users a notification of the last step reached on a live connection
Reached ==
    {u \in UserIds :
        \E c \in userRooms[u] : BagIn(<<c, "notification", last.sightingId>>, out)}

(* C19: for every user who is not anonymous, has notifications enabled and  *)
(* has stored coordinates, a latitude or longitude of 0 included, a pass    *)
(* pushes a notification exactly when the distance from the sighting to     *)
(* the user's coordinates is at most the user's radius.                     *)
C19_NotifiedIffInRange ==
    (returned.id # 0 /\ ~returned.threw) =>
        \A u \in DOMAIN users :
            ( /\ ~users[u].isAnonymous
              /\ users[u].enableNotifications
              /\ users[u].lastLatitude # <<>>
              /\ users[u].lastLongitude # <<>> )
                => ( u \in returned.pushed
                       <=> calculateDistance(returned.latitude, returned.longitude,
                                             users[u].lastLatitude[1],
                                             users[u].lastLongitude[1])
                              <= users[u].notificationRadius )

(* C20: the value notifyNearbyUsers returns is the number of distinct users *)
(* with at least one live connection a notification was pushed to during    *)
(* the pass; a user with several connections counts once.                   *)
C20_CountIsUsersReached ==
    (last.op = "pass_done" /\ returned.kind = "notifyNearbyUsers")
        => returned.count = Cardinality(Reached)

(* C21: in one notifyNearbyUsers pass, a failure while notifying one        *)
(* candidate does not abort the pass: every other candidate within its      *)
(* radius is still notified and still counted in the returned value.        *)
C21_FailureDoesNotAbort ==
    (last.op = "pass_done" /\ returned.kind = "notifyNearbyUsers"
        /\ returned.failing # "none") =>
        LET others == usersToNotify(returned.latitude, returned.longitude)
                          \ {returned.failing}
        IN /\ others \subseteq returned.pushed
           /\ returned.count >= Cardinality(others)

\* the live connections whose handshake identity is the registered user u
Devices(u) ==
    {c \in connectedUsers :
        handshake[c].user.id = u /\ ~handshake[c].user.isAnonymous}

(* C22: a notification pushed to user U is delivered once to every live     *)
(* connection whose handshake identity is the registered user U, and to no  *)
(* other connection: not to another user's, not to an anonymous one.        *)
C22_NotificationToOwnDevices ==
    (last.op = "pass_done") =>
        \A c \in Sockets :
            CopiesIn(<<c, "notification", last.sightingId>>, out) =
                IF \E u \in returned.pushed : c \in Devices(u) THEN 1 ELSE 0

C22_Witness ==
    /\ last.op = "pass_done"
    /\ returned.pushed = {"u1"}
    /\ Devices("u1") = {"c1", "c2"}
    /\ Recipients("notification", last.sightingId) = {"c1", "c2"}

----------------------------------------------------------------------------
\* both values of the payload are numbers within [-90, 90] and [-180, 180]
InRange(data) ==
    /\ data.present
    /\ data.latitude.type = "number" /\ data.longitude.type = "number"
    /\ data.latitude.value >= -900000 /\ data.latitude.value <= 900000
    /\ data.longitude.value >= -1800000 /\ data.longitude.value <= 1800000

Registered(c) == ~handshake[c].user.isAnonymous

\* the step rejects the update_location of c outright
LocationRejected(c) ==
    /\ users' = users
    /\ updates' = updates
    /\ \E m \in {"Invalid coordinates", "Failed to update location"} :
          out' = ToSocket(c, "error", m)

\* the step takes the update_location of c with payload data on to the store
LocationAccepted(c, data) ==
    /\ users' = users
    /\ out' = NoOut
    /\ \E t \in updates' \ updates :
          /\ t.sock = c
          /\ t.pc = "update"
          /\ t.latitude = data.latitude.value
          /\ t.longitude = data.longitude.value

\* the step ends the handling of location update t
LocationEnds(t) == t \in updates /\ ~\E u \in updates' : u.id = t.id

\* the step is the store's answer to the update of t, and the row was written
LocationStored(t) ==
    /\ users'[t.userId].lastLatitude = <<t.latitude>>
    /\ users'[t.userId].lastLongitude = <<t.longitude>>
    /\ \A u \in DOMAIN users \ {t.userId} : users'[u] = users[u]

\* the step acknowledges t with the values it submitted, and with no error
LocationAcknowledged(t) ==
    /\ CopiesIn(<<t.sock, "location_updated", <<t.latitude, t.longitude>>>>, out') = 1
    /\ \A e \in BagToSet(out') :
          /\ e[1] = t.sock
          /\ e[2] \in {"location_updated", "nearby_sightings"}
          /\ e[2] = "location_updated" => e[3] = <<t.latitude, t.longitude>>

LocationValidated ==
    \A c \in Sockets, data \in LocationData :
        (c \in connectedUsers /\ Registered(c) /\ handleLocationUpdate(c, data))
            => IF InRange(data) THEN LocationAccepted(c, data) ELSE LocationRejected(c)

(* C23 as stated: an update_location from a registered connection with a    *)
(* value out of range or not a number emits an error, leaves the stored     *)
(* location unchanged and sends no acknowledgement; with both values in     *)
(* range the location is stored and the acknowledgement carries exactly the *)
(* submitted latitude and longitude.                                        *)
C23_ValidAlwaysStored ==
    [][/\ LocationValidated
       /\ \A t \in updates :
             LocationEnds(t) => (t.pc # "update" /\ LocationAcknowledged(t))]_vars

(* C23 amended: as stated, except that the store update may fail: the       *)
(* location is stored and then acknowledged with exactly the submitted      *)
(* values, or the update fails, the connection gets an error, the stored    *)
(* location is unchanged and no acknowledgement is sent.                    *)
C23_LocationValidated ==
    [][/\ LocationValidated
       /\ \A t \in updates :
             /\ (t.pc = "update" /\ ~LocationEnds(t) /\ t \notin updates')
                    => (LocationStored(t) /\ out' = NoOut)
             /\ LocationEnds(t) =>
                    IF t.pc = "update"
                    THEN /\ users' = users
                         /\ out' = ToSocket(t.sock, "error", "Failed to update location")
                    ELSE /\ users' = users
                         /\ LocationAcknowledged(t)]_vars

C23_Witness ==
    /\ last.op = "location_done"
    /\ last.sock = "c1"
    /\ BagIn(<<"c1", "location_updated", <<900000, 1800000>>>>, out)
    /\ users["u1"].lastLatitude = <<900000>>
    /\ users["u1"].lastLongitude = <<1800000>>

----------------------------------------------------------------------------
(* C24: no inbound event crashes the server process: every client event,    *)
(* one with a missing payload included, and every collaborator failure ends *)
(* in an error reply or a no-op, and the server keeps handling the events   *)
(* of the other connections.                                                *)
C24_NoEventCrashes ==
    /\ last.res # "uncaught"
    /\ last.op # "exit"

(* C25: when the read of the recent messages fails during join_sighting(R)  *)
(* for a present, visible sighting, the join degrades: the joiner, if still *)
(* connected, is a member of R and is sent a chat_history, not an error.    *)
C25_HistoryFailureDegrades ==
    (last.op = "join_history" /\ sightings[last.sightingId] = "visible") =>
        /\ \E e \in BagToSet(out) : e[1] = last.sock /\ e[2] = "chat_history"
        /\ ~\E e \in BagToSet(out) : e[2] = "error"
        /\ (last.sock \in connectedUsers /\ <<last.sock, last.sightingId>> \notin left)
              => last.sock \in rooms[last.sightingId]

----------------------------------------------------------------------------
TypingEvent(op) == IF op = "typing_start" THEN "user_typing" ELSE "user_stopped_typing"

(* C26: a typing_start or typing_stop from connection c for room R is       *)
(* fanned out once to every other current member of R and to nobody else:   *)
(* never back to c and never to a connection that is not a member of R.     *)
C26_TypingFanOut ==
    (last.op \in {"typing_start", "typing_stop"} /\ last.res = "ok") =>
        /\ \A c \in Sockets :
               CopiesIn(<<c, TypingEvent(last.op), last.sock>>, out) =
                   IF c \in rooms[last.sightingId] \ {last.sock} THEN 1 ELSE 0
        /\ \A e \in BagToSet(out) : e[2] = TypingEvent(last.op) /\ e[3] = last.sock

C26_Witness ==
    /\ last.op = "typing_stop"
    /\ last.sock \in rooms[last.sightingId]
    /\ rooms[last.sightingId] # {last.sock}
    /\ Recipients("user_stopped_typing", last.sock) = rooms[last.sightingId] \ {last.sock}

----------------------------------------------------------------------------
\* the step is the successful join of task t: its lookup found the sighting
JoinSucceeds(t) ==
    /\ t \in tasks
    /\ t.kind = "join"
    /\ t.pc = "findUnique"
    /\ t \notin tasks'
    /\ \E u \in tasks' : u.id = t.id /\ u.kind = "join" /\ u.pc = "findMany"

(* C27: joining room R a second time with the same connection is idempotent *)
(* on membership: the member set of R after the second successful join is   *)
(* the set before it, and a join changes the membership of no other room.   *)
C27_JoinIdempotent ==
    [][\A t \in tasks :
          JoinSucceeds(t) =>
              /\ t.sock \in rooms[t.sightingId] => rooms' = rooms
              /\ \A r \in SightingIds \ {t.sightingId} : rooms'[r] = rooms[r]
              /\ userRooms' = userRooms]_vars

C27_Witness ==
    /\ last.op = "join_lookup"
    /\ last.res = "joined"
    /\ last.sock \in rooms[last.sightingId]
    /\ \E t \in tasks :
          /\ t.kind = "join" /\ t.pc = "findMany" /\ t.id # last.id
          /\ t.sock = last.sock /\ t.sightingId = last.sightingId

----------------------------------------------------------------------------
InSeq(x, seq) == \E i \in DOMAIN seq : seq[i] = x

\* the chat_history the last step sent to socket c holds message seq
InHistory(c, seq) ==
    \E e \in BagToSet(out) : e[1] = c /\ e[2] = "chat_history" /\ InSeq(seq, e[3])

\* the row of message seq is written and its broadcast is still to come
BroadcastPending(seq) ==
    \E t \in tasks : t.kind = "chat" /\ t.seq = seq /\ t.pc = "created"

(* C28: no accepted message is missed across a join: when the chat_history  *)
(* of a join of R is sent to a connected joiner, every stored message       *)
(* of R is in that history, or has been sent to the joiner as               *)
(* new_chat_message, or is yet to be broadcast; and every broadcast reaches *)
(* every socket that is in the room by then, under every interleaving of    *)
(* the join, the publish and the store.                                     *)
C28_NoMessageMissed ==
    /\ (last.op = "join_history" /\ last.res = "ok" /\ last.sock \in connectedUsers) =>
           \A i \in DOMAIN chatMessages :
               chatMessages[i].sightingId = last.sightingId =>
                   \/ InHistory(last.sock, chatMessages[i].seq)
                   \/ InSeq(chatMessages[i].seq, delivered[last.sock])
                   \/ BroadcastPending(chatMessages[i].seq)
    /\ (last.op = "chat_create" /\ last.res = "broadcast") =>
           \A c \in rooms[last.sightingId] :
               BagIn(<<c, "new_chat_message", last.id>>, out)

C28_Witness ==
    /\ last.op = "join_history"
    /\ last.res = "ok"
    /\ last.sock \in rooms[last.sightingId]
    /\ out = ToSocket(last.sock, "chat_history", <<>>)
    /\ \E i \in DOMAIN chatMessages :
          /\ chatMessages[i].sightingId = last.sightingId
          /\ delivered[last.sock] = <<chatMessages[i].seq>>

----------------------------------------------------------------------------
(* C29: whenever the handling of join_sighting(R) ends by emitting an error *)
(* to the joiner, the state is as before the request: the joiner's          *)
(* membership of R is what it was when the request arrived (for a joiner    *)
(* that is still connected and has sent no leave_sighting(R) since), and    *)
(* the handling has not emitted user_joined about the joiner, which it does *)
(* in the step that leaves the sighting lookup.                             *)
C29_ErrorLeavesNoTrace ==
    [][\A t \in tasks :
          (/\ t.kind = "join"
           /\ last'.op \in {"join_lookup", "join_history"}
           /\ last'.id = t.id
           /\ \E e \in BagToSet(out') : e[1] = t.sock /\ e[2] = "error") =>
              /\ t.pc = "findUnique"
              /\ (t.sock \in connectedUsers /\ <<t.sock, t.sightingId>> \notin left) =>
                     (t.sock \in rooms'[t.sightingId]) = t.member]_vars

----------------------------------------------------------------------------
(* C30: presence and typing events are emitted only on behalf of members: a *)
(* leave_sighting(R), typing_start(R) or typing_stop(R) from a connection   *)
(* that is not a member of R changes no membership and causes no user_left, *)
(* user_typing or user_stopped_typing to be emitted.                        *)
C30_OnlyMembersEmit ==
    [][(/\ last'.op \in {"leave_sighting", "typing_start", "typing_stop"}
        /\ last'.res = "ok"
        /\ last'.sock \notin rooms[last'.sightingId]) =>
           /\ rooms' = rooms
           /\ ~\E e \in BagToSet(out') :
                  e[2] \in {"user_left", "user_typing", "user_stopped_typing"}]_vars

====
